---- MODULE Spec2Model ----
(***************************************************************************)
(* Model of the App component (counter, disable flag, debounced and        *)
(* toggle-triggered AniList status checks), the uiReducer and the          *)
(* callAnilistStudio service.                                              *)
(*                                                                         *)
(* The component runs under React 18 (createRoot): state updates made in a *)
(* promise callback are batched and rendered after the whole               *)
(* then/catch/finally chain has run, and the effects of a render run       *)
(* before any later event is handled.  An action of the model is therefore *)
(* one event-loop task: the handler, the render it causes and the effect   *)
(* cleanups and effects of that render.                                    *)
(***************************************************************************)
EXTENDS Integers, FiniteSets, Sequences, TLC

\* ---- program constants -------------------------------------------------
DebounceDelay == 300

\* ---- bounds of the model -----------------------------------------------
MaxCount == 2
MaxUserActions == 4
MaxChecks == 3
TickStep == 100
MaxRed == 3

QuietCap == DebounceDelay + TickStep

VARIABLES
    alive,            \* the component is mounted
    count,            \* useState(0)
    uiState,          \* useReducer(uiReducer, initialUIState)
    isSaving,         \* useState(false)
    prevDisableRef,   \* useRef(uiState.disableButtons).current
    prevCountRef,     \* useRef(count).current
    countTimeoutRef,  \* useRef<number | null>(null).current, 0 is null
    timers,           \* pending window.setTimeout entries
    nextTimerId,      \* the id the next window.setTimeout returns
    toggleInflight,   \* checks issued by the disableButtons effect, not yet completed
    countInflight,    \* checks issued by the debounce callback, not yet completed
    numChecks,        \* number of callAnilistStudio() calls made so far
    toggleMounted,    \* id of the check whose `mounted` the current toggle cleanup owns, 0 if none
    countCleanup,     \* the current count effect instance returned a cleanup
    \* ---- history (observers, read by no handler) ----
    numUser,          \* user-initiated changes so far
    changed,          \* the counter has changed at least once
    sinceChange,      \* time since the last counter change, capped at QuietCap
    issuedSince,      \* closure values of the counter checks issued since the last counter change
    superseded,       \* ids of timers that were pending when the counter changed or the component unmounted
    fired,            \* ids of timers whose callback ran
    togPre,           \* flag value before the last user toggle
    togCheck,         \* id of the check issued by the last user toggle, 0 if none
    togState,         \* "none", "pending", "ok", "fail": fate of that check while the user stays idle
    lastDone,         \* the check that completed last: its path, torn and mounted flags, outcome
    done,             \* ids of the checks whose completion handlers have run
    \* ---- the pure functions, applied on their own (PureSpec) ----
    svcRes,           \* the response given to callAnilistStudio
    svcOut,           \* the promise it returned, settled
    ui,               \* a UIState run through uiReducer
    uiPrev,           \* the state before the last uiReducer call
    uiAct,            \* the action of the last uiReducer call
    red,              \* a CounterReducer State run through reducer
    redPrev,          \* the state before the last reducer call
    redAct,           \* the action of the last reducer call
    redIncs,          \* 'increment' actions since the last 'reset'
    redDecs           \* 'decrement' actions since the last 'reset'

vars == <<alive, count, uiState, isSaving, prevDisableRef, prevCountRef,
          countTimeoutRef, timers, nextTimerId, toggleInflight, countInflight,
          numChecks, toggleMounted, countCleanup, numUser, changed,
          sinceChange, issuedSince, superseded, fired, togPre, togCheck,
          togState, lastDone, done, svcRes, svcOut, ui, uiPrev, uiAct, red,
          redPrev, redAct, redIncs, redDecs>>

appVars == <<alive, count, uiState, isSaving, prevDisableRef, prevCountRef,
             countTimeoutRef, timers, nextTimerId, toggleInflight,
             countInflight, numChecks, toggleMounted, countCleanup, numUser,
             changed, sinceChange, issuedSince, superseded, fired, togPre,
             togCheck, togState, lastDone, done>>

pureVars == <<svcRes, svcOut, ui, uiPrev, uiAct, red, redPrev, redAct,
              redIncs, redDecs>>

\* ---- services/graphql.ts: callAnilistStudio ------------------------------
\* A response of the endpoint as the function observes it: fetch throws, or
\* it resolves with res.ok; res.json() throws, or it yields a body with or
\* without errors, data and data.Studio.  What the function never reads
\* (the status of a fetch that threw, the body of a response that is not
\* ok or does not parse) is left FALSE.
Responses ==
    { r \in [fetchThrows : BOOLEAN, ok : BOOLEAN, jsonThrows : BOOLEAN,
             errors : BOOLEAN, data : BOOLEAN, studio : BOOLEAN] :
        /\ r.studio => r.data
        /\ r.fetchThrows => ~r.ok
        /\ ~r.ok => ~r.jsonThrows
        /\ (~r.ok \/ r.jsonThrows) => (~r.errors /\ ~r.data) }

\* The try block (lines 15-28): what it returns, or "throw".
TryBodyIgnoresErrors(res) ==
    IF res.fetchThrows THEN "throw"
    ELSE IF ~res.ok THEN "false"
    ELSE IF res.jsonThrows THEN "throw"
    ELSE IF res.data /\ res.studio THEN "true" ELSE "false"

TryBody(res) ==
    IF res.fetchThrows THEN "throw"
    ELSE IF ~res.ok THEN "false"
    ELSE IF res.jsonThrows THEN "throw"
    ELSE IF res.errors THEN "false"
    ELSE IF res.data /\ res.studio THEN "true" ELSE "false"

\* The promise the async function returns, settled: the catch block turns a
\* throw of the try block into the value false.
callAnilistStudioNoCatch(res) ==
    IF TryBody(res) = "throw"
    THEN [settled |-> "rejected", value |-> FALSE]
    ELSE [settled |-> "resolved", value |-> TryBody(res) = "true"]

callAnilistStudio(res) ==
    IF TryBody(res) = "throw"
    THEN [settled |-> "resolved", value |-> FALSE]
    ELSE [settled |-> "resolved", value |-> TryBody(res) = "true"]

\* ---- store/uiReducer.ts --------------------------------------------------
initialUIState == [disableButtons |-> FALSE]

uiReducerToggleSetsTrue(state, action) ==
    CASE action.type = "TOGGLE_DISABLE" ->
            [state EXCEPT !.disableButtons = TRUE]
      [] action.type = "SET_DISABLE" ->
            [state EXCEPT !.disableButtons = action.payload]
      [] OTHER -> state

uiReducer(state, action) ==
    CASE action.type = "TOGGLE_DISABLE" ->
            [state EXCEPT !.disableButtons = ~state.disableButtons]
      [] action.type = "SET_DISABLE" ->
            [state EXCEPT !.disableButtons = action.payload]
      [] OTHER -> state

\* ---- examples/CounterReducer.tsx ------------------------------------------
reducerDecrementTwice(state, action) ==
    CASE action.type = "increment" -> [count |-> state.count + 1]
      [] action.type = "decrement" -> [count |-> state.count - 2]
      [] action.type = "reset" -> [count |-> 0]
      [] OTHER -> state

reducer(state, action) ==
    CASE action.type = "increment" -> [count |-> state.count + 1]
      [] action.type = "decrement" -> [count |-> state.count - 1]
      [] action.type = "reset" -> [count |-> 0]
      [] OTHER -> state

\* ---- the component state as one value ------------------------------------
Cur ==
    [alive |-> alive, count |-> count, uiState |-> uiState,
     isSaving |-> isSaving, prevDisableRef |-> prevDisableRef,
     prevCountRef |-> prevCountRef, countTimeoutRef |-> countTimeoutRef,
     timers |-> timers, nextTimerId |-> nextTimerId,
     toggleInflight |-> toggleInflight, countInflight |-> countInflight,
     numChecks |-> numChecks, toggleMounted |-> toggleMounted,
     countCleanup |-> countCleanup]

Ids(S) == { x.id : x \in S }

\* State setters: React drops updates of an unmounted component.
setIsSaving(s, v) == IF s.alive THEN [s EXCEPT !.isSaving = v] ELSE s

setCount(s, v) == IF s.alive THEN [s EXCEPT !.count = v] ELSE s

uiDispatch(s, action) ==
    IF s.alive THEN [s EXCEPT !.uiState = uiReducer(s.uiState, action)] ELSE s

\* window.clearTimeout(id)
ClearTimeoutNoop(s, id) == s

ClearTimeout(s, id) == [s EXCEPT !.timers = { t \in @ : t.id # id }]

\* window.setTimeout(callback, 300); the callback closes over `count`
SetTimeoutShort(s) ==
    [s EXCEPT !.timers = @ \cup {[id |-> s.nextTimerId, val |-> s.count,
                                  left |-> TickStep]},
              !.nextTimerId = @ + 1]

SetTimeout(s) ==
    [s EXCEPT !.timers = @ \cup {[id |-> s.nextTimerId, val |-> s.count,
                                  left |-> DebounceDelay]},
              !.nextTimerId = @ + 1]

\* ---- the disableButtons effect (lines 62-93) ------------------------------
\* return () => { mounted = false; }
ToggleCleanupNoGuard(s) == s

ToggleCleanup(s) ==
    IF s.toggleMounted = 0 THEN s
    ELSE [s EXCEPT !.toggleInflight =
            { IF c.id = s.toggleMounted THEN [c EXCEPT !.mounted = FALSE] ELSE c
              : c \in @ }]

ToggleEffect(s) ==
    IF s.prevDisableRef = s.uiState.disableButtons
    THEN [s EXCEPT !.prevDisableRef = s.uiState.disableButtons,
                   !.toggleMounted = 0]
    ELSE LET s1 == setIsSaving(s, TRUE)
             id == s.numChecks + 1
         IN [s1 EXCEPT !.toggleInflight = @ \cup
                          {[id |-> id, val |-> s.uiState.disableButtons,
                            mounted |-> TRUE, torn |-> FALSE]},
                       !.numChecks = id,
                       !.toggleMounted = id]

\* .then(success => ...)
ToggleThen(s, c, success) ==
    IF ~c.mounted THEN s
    ELSE IF ~success
         THEN uiDispatch(s, [type |-> "SET_DISABLE", payload |-> s.prevDisableRef])
         ELSE s

\* .catch(err => ...): logs and dispatches the rollback, unguarded
ToggleCatch(s, c) ==
    uiDispatch(s, [type |-> "SET_DISABLE", payload |-> s.prevDisableRef])

\* .finally(() => ...)
ToggleFinally(s, c) ==
    LET s1 == IF c.mounted THEN setIsSaving(s, FALSE) ELSE s
    IN [s1 EXCEPT !.prevDisableRef = c.val]

\* ---- the count effect (lines 96-138) --------------------------------------
CountCleanupNoClear(s) ==
    IF ~s.countCleanup THEN s
    ELSE IF s.countTimeoutRef # 0
         THEN [s EXCEPT !.countTimeoutRef = 0]
         ELSE s

CountCleanupAborts(s) ==
    IF ~s.countCleanup THEN s
    ELSE IF s.countTimeoutRef # 0
         THEN [ClearTimeout(s, s.countTimeoutRef)
                 EXCEPT !.countTimeoutRef = 0, !.countInflight = {}]
         ELSE [s EXCEPT !.countInflight = {}]

CountCleanup(s) ==
    IF ~s.countCleanup THEN s
    ELSE IF s.countTimeoutRef # 0
         THEN [ClearTimeout(s, s.countTimeoutRef) EXCEPT !.countTimeoutRef = 0]
         ELSE s

CountEffect(s) ==
    IF s.prevCountRef = s.count
    THEN [s EXCEPT !.prevCountRef = s.count, !.countCleanup = FALSE]
    ELSE LET s1 == IF s.countTimeoutRef # 0
                   THEN ClearTimeout(s, s.countTimeoutRef)
                   ELSE s
             s2 == SetTimeout(s1)
         IN [s2 EXCEPT !.countTimeoutRef = s1.nextTimerId,
                       !.countCleanup = TRUE]

\* The setTimeout callback.  Its `mounted` is set to true and the function
\* that would reset it is returned to setTimeout, which drops it.
TimerCallback(s, t) ==
    LET s1 == setIsSaving(s, TRUE)
        id == s.numChecks + 1
    IN [s1 EXCEPT !.countInflight = @ \cup
                     {[id |-> id, val |-> t.val, mounted |-> TRUE,
                       torn |-> FALSE]},
                  !.numChecks = id]

\* .then(success => ...): only logs
CountThenRollback(s, c, success) ==
    IF ~c.mounted THEN s
    ELSE IF ~success THEN setCount(s, s.prevCountRef) ELSE s

CountThen(s, c, success) == s

\* .catch(err => ...): only logs
CountCatch(s, c) == s

\* .finally(() => ...)
CountFinally(s, c) ==
    LET s1 == IF c.mounted THEN setIsSaving(s, FALSE) ELSE s
    IN [s1 EXCEPT !.prevCountRef = c.val]

\* ---- render: run the effects whose dependency changed ---------------------
Render(old, s) ==
    LET a == IF s.uiState.disableButtons # old.uiState.disableButtons
             THEN ToggleEffect(ToggleCleanup(s))
             ELSE s
    IN IF a.count # old.count THEN CountEffect(CountCleanup(a)) ELSE a

\* Teardown of the component: every effect cleanup runs.
Teardown(s) == [CountCleanup(ToggleCleanup(s)) EXCEPT !.alive = FALSE]

\* ---- committing the result of a task --------------------------------------
\* Observers: a check issued before this task whose effect instance the task
\* tore down is marked torn.
MarkTorn(S, old, isTorn) ==
    { IF isTorn /\ c.id <= old.numChecks THEN [c EXCEPT !.torn = TRUE] ELSE c
      : c \in S }

Commit(s) ==
    /\ s.numChecks <= MaxChecks
    /\ alive' = s.alive
    /\ count' = s.count
    /\ uiState' = s.uiState
    /\ isSaving' = s.isSaving
    /\ prevDisableRef' = s.prevDisableRef
    /\ prevCountRef' = s.prevCountRef
    /\ countTimeoutRef' = s.countTimeoutRef
    /\ timers' = s.timers
    /\ nextTimerId' = s.nextTimerId
    /\ toggleInflight' =
          MarkTorn(s.toggleInflight, Cur,
                   s.uiState # uiState \/ (alive /\ ~s.alive))
    /\ countInflight' =
          MarkTorn(s.countInflight, Cur,
                   s.count # count \/ (alive /\ ~s.alive))
    /\ numChecks' = s.numChecks
    /\ toggleMounted' = s.toggleMounted
    /\ countCleanup' = s.countCleanup
    /\ UNCHANGED pureVars

\* ---- initial state: mount, both effects take their first-render branch ----
Init ==
    /\ alive = TRUE
    /\ count = 0
    /\ uiState = initialUIState
    /\ isSaving = FALSE
    /\ prevDisableRef = initialUIState.disableButtons
    /\ prevCountRef = 0
    /\ countTimeoutRef = 0
    /\ timers = {}
    /\ nextTimerId = 1
    /\ toggleInflight = {}
    /\ countInflight = {}
    /\ numChecks = 0
    /\ toggleMounted = 0
    /\ countCleanup = FALSE
    /\ numUser = 0
    /\ changed = FALSE
    /\ sinceChange = 0
    /\ issuedSince = <<>>
    /\ superseded = {}
    /\ fired = {}
    /\ togPre = FALSE
    /\ togCheck = 0
    /\ togState = "none"
    /\ lastDone = [kind |-> "none", torn |-> FALSE, mounted |-> FALSE,
                   ok |-> FALSE, threw |-> FALSE, caught |-> FALSE]
    /\ done = {}
    /\ svcRes = [fetchThrows |-> TRUE, ok |-> FALSE, jsonThrows |-> FALSE,
                 errors |-> FALSE, data |-> FALSE, studio |-> FALSE]
    /\ svcOut = callAnilistStudio(svcRes)
    /\ ui = initialUIState
    /\ uiPrev = initialUIState
    /\ uiAct = [type |-> "NONE"]
    /\ red = [count |-> 0]
    /\ redPrev = [count |-> 0]
    /\ redAct = [type |-> "none"]
    /\ redIncs = 0
    /\ redDecs = 0

\* ---- user actions ----------------------------------------------------------
CounterChanged(s) ==
    /\ Commit(Render(Cur, s))
    /\ numUser' = numUser + 1
    /\ changed' = TRUE
    /\ sinceChange' = 0
    /\ issuedSince' = <<>>
    /\ superseded' = superseded \cup Ids(timers)
    /\ togState' = "none"
    /\ UNCHANGED <<fired, togPre, togCheck, lastDone, done>>

\* The `disabled` prop of each button of the button group; a disabled
\* <button> delivers no click.  The toggle button is given no `disabled`
\* prop, and Button defaults it to false.
DisabledNever(button) == FALSE

Disabled(button) ==
    CASE button = "increment" -> uiState.disableButtons
      [] button = "reset" -> uiState.disableButtons
      [] button = "toggle" -> FALSE
      [] button = "countAnimes" -> uiState.disableButtons

\* Increment button
handleIncrement ==
    /\ alive
    /\ ~Disabled("increment")
    /\ numUser < MaxUserActions
    /\ count < MaxCount
    /\ CounterChanged(setCount(Cur, count + 1))

\* Reset button; setCount(0) at 0 is no change and causes no render
handleReset ==
    /\ alive
    /\ ~Disabled("reset")
    /\ numUser < MaxUserActions
    /\ count # 0
    /\ CounterChanged(setCount(Cur, 0))

\* onClick of the "Enable/Disable Buttons" and "Count Animes Buttons" buttons
toggleDisabled ==
    /\ alive
    /\ \E button \in {"toggle", "countAnimes"} : ~Disabled(button)
    /\ numUser < MaxUserActions
    /\ LET s == Render(Cur, uiDispatch(Cur, [type |-> "TOGGLE_DISABLE"]))
       IN /\ Commit(s)
          /\ togPre' = uiState.disableButtons
          /\ togCheck' = IF s.numChecks > numChecks THEN s.numChecks ELSE 0
          /\ togState' = IF s.numChecks > numChecks THEN "pending" ELSE "none"
    /\ numUser' = numUser + 1
    /\ UNCHANGED <<changed, sinceChange, issuedSince, superseded, fired,
                   lastDone, done>>

Unmount ==
    /\ alive
    /\ Commit(Teardown(Cur))
    /\ superseded' = superseded \cup Ids(timers)
    /\ togState' = "none"
    /\ UNCHANGED <<numUser, changed, sinceChange, issuedSince, fired, togPre,
                   togCheck, lastDone, done>>

\* ---- time and the event loop ----------------------------------------------
TimerDue(t) == t.left = 0

Max(a, b) == IF a > b THEN a ELSE b

Min(a, b) == IF a < b THEN a ELSE b

\* Time passes; a due timer runs before time passes further.
Tick ==
    /\ changed
    /\ sinceChange < QuietCap
    /\ \A t \in timers : ~TimerDue(t)
    /\ sinceChange' = Min(sinceChange + TickStep, QuietCap)
    /\ timers' = { [t EXCEPT !.left = Max(0, @ - TickStep)] : t \in timers }
    /\ UNCHANGED <<alive, count, uiState, isSaving, prevDisableRef,
                   prevCountRef, countTimeoutRef, nextTimerId, toggleInflight,
                   countInflight, numChecks, toggleMounted, countCleanup,
                   numUser, changed, issuedSince, superseded, fired, togPre,
                   togCheck, togState, lastDone, done>>
    /\ UNCHANGED pureVars

TimerFire ==
    \E t \in timers :
        /\ TimerDue(t)
        /\ Commit(TimerCallback([Cur EXCEPT !.timers = @ \ {t}], t))
        /\ fired' = fired \cup {t.id}
        /\ issuedSince' = Append(issuedSince, t.val)
        /\ UNCHANGED <<numUser, changed, sinceChange, superseded, togPre,
                       togCheck, togState, lastDone, done>>

\* ---- completion of a check: then, finally, then the batched render --------
ToggleComplete ==
    \E c \in toggleInflight, res \in Responses :
        LET p == callAnilistStudio(res)
            s0 == [Cur EXCEPT !.toggleInflight = @ \ {c}]
            s1 == IF p.settled = "resolved"
                  THEN ToggleThen(s0, c, p.value)
                  ELSE ToggleCatch(s0, c)
            s2 == ToggleFinally(s1, c)
        IN /\ Commit(Render(Cur, s2))
           /\ togState' = IF togState = "pending" /\ c.id = togCheck
                          THEN (IF p.settled = "resolved" /\ p.value
                                THEN "ok" ELSE "fail")
                          ELSE togState
           /\ lastDone' = [kind |-> "toggle", torn |-> c.torn,
                            mounted |-> c.mounted,
                            ok |-> (p.settled = "resolved" /\ p.value),
                            threw |-> (TryBody(res) = "throw"),
                            caught |-> (p.settled = "rejected")]
           /\ done' = done \cup {c.id}
           /\ UNCHANGED <<numUser, changed, sinceChange, issuedSince,
                          superseded, fired, togPre, togCheck>>

CountComplete ==
    \E c \in countInflight, res \in Responses :
        LET p == callAnilistStudio(res)
            s0 == [Cur EXCEPT !.countInflight = @ \ {c}]
            s1 == IF p.settled = "resolved"
                  THEN CountThen(s0, c, p.value)
                  ELSE CountCatch(s0, c)
            s2 == CountFinally(s1, c)
        IN /\ Commit(Render(Cur, s2))
           /\ lastDone' = [kind |-> "count", torn |-> c.torn,
                            mounted |-> c.mounted,
                            ok |-> (p.settled = "resolved" /\ p.value),
                            threw |-> (TryBody(res) = "throw"),
                            caught |-> (p.settled = "rejected")]
           /\ done' = done \cup {c.id}
           /\ UNCHANGED <<numUser, changed, sinceChange, issuedSince,
                          superseded, fired, togPre, togCheck, togState>>

Next ==
    \/ handleIncrement
    \/ handleReset
    \/ toggleDisabled
    \/ Unmount
    \/ Tick
    \/ TimerFire
    \/ ToggleComplete
    \/ CountComplete

Spec == Init /\ [][Next]_vars

\* ---- unbounded runs ----------------------------------------------------------
\* MaxChecks bounds the ids in use.  Once checks have completed, the checks
\* still in flight are renumbered 1..k in the order they were issued and the
\* ids of the completed ones are handed out again, so that a run may issue
\* any number of checks.  Only the names of the checks change.
Rank(i) ==
    Cardinality({ j \in Ids(toggleInflight \cup countInflight) : j <= i })

Rename(i) ==
    IF i \in Ids(toggleInflight \cup countInflight) THEN Rank(i) ELSE 0

Recycle ==
    /\ numChecks # Cardinality(Ids(toggleInflight \cup countInflight))
    /\ toggleInflight' = { [c EXCEPT !.id = Rank(c.id)] : c \in toggleInflight }
    /\ countInflight' = { [c EXCEPT !.id = Rank(c.id)] : c \in countInflight }
    /\ numChecks' = Cardinality(Ids(toggleInflight \cup countInflight))
    /\ toggleMounted' = Rename(toggleMounted)
    /\ togCheck' = Rename(togCheck)
    /\ done' = {}
    /\ UNCHANGED <<alive, count, uiState, isSaving, prevDisableRef,
                   prevCountRef, countTimeoutRef, timers, nextTimerId,
                   countCleanup, numUser, changed, sinceChange, issuedSince,
                   superseded, fired, togPre, togState, lastDone>>
    /\ UNCHANGED pureVars

LiveNext ==
    \/ handleIncrement
    \/ handleReset
    \/ toggleDisabled
    \/ Unmount
    \/ Tick
    \/ TimerFire
    \/ ToggleComplete
    \/ CountComplete
    \/ Recycle

\* The event loop lets time pass and runs a due timer; the network answers
\* every check.  The user is free to stop at any time.  A due timer is
\* never kept from running by the program: TimerFire is disabled only while
\* all MaxChecks ids are in use, hence the strong fairness.
LiveSpec ==
    /\ Init
    /\ [][LiveNext]_vars
    /\ WF_vars(Tick)
    /\ SF_vars(TimerFire)
    /\ WF_vars(ToggleComplete)
    /\ WF_vars(CountComplete)
    /\ WF_vars(Recycle)

\* ---- the pure functions on their own ---------------------------------------
CallService ==
    /\ \E res \in Responses :
          /\ svcRes' = res
          /\ svcOut' = callAnilistStudio(res)
    /\ UNCHANGED <<ui, uiPrev, uiAct, red, redPrev, redAct, redIncs, redDecs>>
    /\ UNCHANGED appVars

UiApply(action) ==
    /\ ui' = uiReducer(ui, action)
    /\ uiPrev' = ui
    /\ uiAct' = action
    /\ UNCHANGED <<svcRes, svcOut, red, redPrev, redAct, redIncs, redDecs>>
    /\ UNCHANGED appVars

UiToggle == UiApply([type |-> "TOGGLE_DISABLE"])

UiSet == \E b \in BOOLEAN : UiApply([type |-> "SET_DISABLE", payload |-> b])

RedApply(action) ==
    /\ red' = reducer(red, action)
    /\ redPrev' = red
    /\ redAct' = action
    /\ UNCHANGED <<svcRes, svcOut, ui, uiPrev, uiAct>>
    /\ UNCHANGED appVars

RedIncrement ==
    /\ redIncs < MaxRed
    /\ RedApply([type |-> "increment"])
    /\ redIncs' = redIncs + 1
    /\ UNCHANGED redDecs

RedDecrement ==
    /\ redDecs < MaxRed
    /\ RedApply([type |-> "decrement"])
    /\ redDecs' = redDecs + 1
    /\ UNCHANGED redIncs

RedReset ==
    /\ RedApply([type |-> "reset"])
    /\ redIncs' = 0
    /\ redDecs' = 0

PureNext ==
    \/ CallService
    \/ UiToggle
    \/ UiSet
    \/ RedIncrement
    \/ RedDecrement
    \/ RedReset

PureSpec == Init /\ [][PureNext]_vars

\* ---- properties -----------------------------------------------------------
NoCheckInFlight == toggleInflight = {} /\ countInflight = {}

\* A check of set S completes in this step.
Completes(c, S, T) == c \in S /\ c.id \notin Ids(T)

\* C1: once the counter has been left alone for more than the debounce delay,
\* exactly one counter check has been issued since its last change, and it
\* was issued for the final counter value (also when that value equals the
\* value before the burst, and when an earlier check is still in flight).
C1_OneCheckForSettledValue ==
    (alive /\ changed /\ sinceChange > DebounceDelay)
        => issuedSince = <<count>>

\* C2: after a user toggle with no further user action, once no check is in
\* flight the flag equals its pre-toggle value if the toggle's check failed
\* and the toggled value if it succeeded, whatever later checks return.
C2_ToggleSettles ==
    (alive /\ NoCheckInFlight)
        => /\ (togState = "fail" => uiState.disableButtons = togPre)
           /\ (togState = "ok" => uiState.disableButtons = ~togPre)

\* C3: a timer that was pending when the counter changed again or the
\* component unmounted never runs its callback, so no check is issued for
\* the superseded value.
C3_SupersededNeverFires == superseded \cap fired = {}

C3_Witness ==
    /\ superseded # {}
    /\ fired # {}
    /\ sinceChange > DebounceDelay

\* C4: every change of uiState.disableButtons after the initial mount makes
\* the toggle effect issue exactly one check.
C4_EveryFlagChangeOneCheck ==
    [][uiState'.disableButtons # uiState.disableButtons
         => Cardinality({ c \in toggleInflight' : c.id > numChecks }) = 1]_vars

\* C5: the completion of a toggle check whose effect instance was torn down
\* changes neither uiState.disableButtons nor isSaving, whatever its outcome.
C5_TornToggleResultDiscarded ==
    [][\A c \in toggleInflight :
          (c.torn /\ Completes(c, toggleInflight, toggleInflight'))
             => (uiState' = uiState /\ isSaving' = isSaving)]_vars

C5_Witness ==
    /\ alive
    /\ lastDone.kind = "toggle"
    /\ lastDone.torn
    /\ ~lastDone.ok
    /\ isSaving

\* C6: the completion of a counter check whose effect instance was torn down
\* mutates nothing: it neither calls setIsSaving nor writes prevCountRef.
C6_StaleCountResultDiscarded ==
    [][\A c \in countInflight :
          (c.torn /\ Completes(c, countInflight, countInflight'))
             => (isSaving' = isSaving /\ prevCountRef' = prevCountRef)]_vars

\* C7: at most one debounce timer is pending; scheduling a new one cancels
\* the previous one first.
C7_AtMostOnePendingTimer == Cardinality(timers) <= 1

C7_Witness ==
    /\ Cardinality(timers) = 1
    /\ superseded # {}
    /\ \A t \in timers : t.id \notin superseded

\* C8: nothing is retried: the number of checks issued never exceeds the
\* number of user-initiated changes.
C8_NoRetry == numChecks <= numUser

\* C9: count changes only by a user's Increment (count + 1) or Reset (0);
\* the completion of a check, on either path, leaves it unchanged.
C9_CompletionKeepsCount ==
    [][/\ count' # count
          => (numUser' = numUser + 1 /\ (count' = count + 1 \/ count' = 0))
       /\ (\E c \in toggleInflight \cup countInflight :
              Completes(c, toggleInflight \cup countInflight,
                        toggleInflight' \cup countInflight'))
          => count' = count]_vars

C9_Witness ==
    /\ alive
    /\ lastDone.kind = "count"
    /\ lastDone.mounted
    /\ ~lastDone.ok
    /\ count # prevCountRef

\* C10: a counter check is issued only when the counter has been unchanged
\* for the full debounce delay.
C10_CheckOnlyAfterQuietPeriod ==
    [][\A c \in countInflight' :
          c.id > numChecks => sinceChange >= DebounceDelay]_vars

C10_Witness ==
    /\ countInflight # {}
    /\ fired # {}
    /\ sinceChange >= DebounceDelay

\* C11: callAnilistStudio resolves to true if and only if the response is
\* ok and the parsed body has no errors field and has data and data.Studio;
\* for every other response it resolves to false.
C11_TrueIffOkNoErrorsStudio ==
    /\ svcOut.settled = "resolved"
    /\ svcOut.value <=>
          (/\ ~svcRes.fetchThrows /\ svcRes.ok /\ ~svcRes.jsonThrows
           /\ ~svcRes.errors /\ svcRes.data /\ svcRes.studio)

C11_Witness ==
    /\ svcOut.value
    /\ svcRes.ok
    /\ svcRes.studio

\* C12: callAnilistStudio never rejects: a throw of fetch or of res.json()
\* is caught and the promise resolves to false, so the .catch handler of
\* neither effect ever runs for a completed check.
C12_NeverRejects ==
    /\ ~lastDone.caught
    /\ lastDone.threw => ~lastDone.ok

C12_Witness ==
    /\ alive
    /\ lastDone.kind = "toggle"
    /\ lastDone.mounted
    /\ lastDone.threw

\* C15: counter changes and unmount cancel only pending timers: no action
\* removes an issued check, so every issued check is either still in flight
\* or has run its completion handlers.
C15_IssuedChecksNeverAborted ==
    /\ Ids(toggleInflight \cup countInflight) \cup done = 1..numChecks
    /\ Ids(toggleInflight \cup countInflight) \cap done = {}

C15_Witness ==
    /\ \E c \in countInflight : c.torn
    /\ \E c \in toggleInflight : c.torn
    /\ done # {}

\* C13: from disableButtons = false, TOGGLE_DISABLE yields the negation of
\* the input flag and SET_DISABLE yields the payload; toggling twice gives
\* back the state and setting the same payload twice equals setting it once.
C13_UiReducerTransitions ==
    /\ uiAct.type = "NONE" => ui = [disableButtons |-> FALSE]
    /\ uiAct.type = "TOGGLE_DISABLE"
          => ui = [disableButtons |-> ~uiPrev.disableButtons]
    /\ uiAct.type = "SET_DISABLE"
          => ui = [disableButtons |-> uiAct.payload]
    /\ uiReducer(uiReducer(ui, [type |-> "TOGGLE_DISABLE"]),
                 [type |-> "TOGGLE_DISABLE"]) = ui
    /\ \A b \in BOOLEAN :
          LET set == [type |-> "SET_DISABLE", payload |-> b]
          IN uiReducer(uiReducer(ui, set), set) = uiReducer(ui, set)

C13_Witness ==
    /\ uiAct.type = "TOGGLE_DISABLE"
    /\ uiPrev.disableButtons
    /\ ~ui.disableButtons

\* C14: the CounterReducer reducer starts at 0; increment adds 1, decrement
\* subtracts 1, reset yields 0; the count is the increments minus the
\* decrements since the last reset, and increment then decrement is the
\* identity.
C14_ReducerCounts ==
    /\ redAct.type = "none" => red = [count |-> 0]
    /\ redAct.type = "increment" => red = [count |-> redPrev.count + 1]
    /\ redAct.type = "decrement" => red = [count |-> redPrev.count - 1]
    /\ redAct.type = "reset" => red = [count |-> 0]
    /\ red.count = redIncs - redDecs
    /\ reducer(reducer(red, [type |-> "increment"]),
               [type |-> "decrement"]) = red

C14_Witness ==
    /\ redAct.type = "decrement"
    /\ redIncs > 0
    /\ red.count < 0

Quiescent == timers = {} /\ NoCheckInFlight

\* C16: once the user has stopped and every issued check completes, whatever
\* the outcomes, the mounted component reaches a state with no pending timer
\* and no check in flight and stays there.
C16_EventuallyQuiescent == <>[](~alive \/ Quiescent)

\* C17: in the mounted App isSaving is true whenever a check (of either
\* path) is in flight; a completion never clears it while another check is
\* still in flight.
C17_SavingWhileInFlight ==
    (alive /\ ~NoCheckInFlight) => isSaving

\* C18: in the mounted App, once every issued check has completed and no
\* timer is pending, isSaving is false.
C18_SavingClearedWhenIdle ==
    (alive /\ NoCheckInFlight /\ timers = {}) => ~isSaving

\* C19: while uiState.disableButtons is true the counter does not change
\* and no debounce timer is scheduled; the toggle button is never disabled,
\* so the user can always toggle the flag.
C19_DisabledFreezesCounter ==
    /\ [][uiState.disableButtons
            => (count' = count /\ nextTimerId' = nextTimerId)]_vars
    /\ []((alive /\ numUser < MaxUserActions /\ numChecks < MaxChecks)
            => ENABLED toggleDisabled)

C19_Witness ==
    /\ alive
    /\ uiState.disableButtons
    /\ timers # {}
    /\ sinceChange > 0
    /\ count # 0

\* C20: in the mounted App, whenever no toggle check is in flight,
\* prevDisableRef.current equals uiState.disableButtons.
C20_PrevDisableRefInSync ==
    (alive /\ toggleInflight = {}) => prevDisableRef = uiState.disableButtons

TypeOK ==
    /\ alive \in BOOLEAN
    /\ count \in 0..MaxCount
    /\ uiState \in [disableButtons : BOOLEAN]
    /\ isSaving \in BOOLEAN
    /\ Cardinality(toggleInflight) + Cardinality(countInflight) <= numChecks
====
